---- MODULE Spec2Model ----
(***************************************************************************)
(* Model of calc.py: the ledger normaliser, the FIFO matching engine, the  *)
(* valuation converter and the aggregator of the portfolio calculator.     *)
(*                                                                         *)
(* Numbers: every quantity and value the program stores is rounded to      *)
(* internal_decimal_places = 8 fractional digits, so the model counts in   *)
(* units of 10^-8 (integers).  A table cell that may be NaN / NaT is a     *)
(* sequence: <<>> is NaN, <<n>> is the number n.                           *)
(***************************************************************************)
EXTENDS Integers, Sequences, FiniteSets, TLC

VARIABLES
  columns,                \* currency codes of the buy_value_<code> columns of the input file
  input_df,               \* the trade rows (a sequence; the position is the row label)
  primary_value_currency, \* main(): primary_value_currency, "" before it is determined
  buy_df,                 \* working BuyEvents: row label -> entry
  sell_df,                \* working SellEvents: row label -> entry
  buy_and_sell_match_df,  \* the matched lots (and, after the loop, the residual holdings)
  pc,                     \* position of main()
  error,                  \* the message of print_error_message_and_exit, kind "none" if none
  iterations,             \* lines 147-170: the number of times the body of the matching loop was entered
  value_index,            \* line 174: position in value_currencies of the next currency to convert to
  realized_totals_df,             \* the four tables of the aggregator, sets of rows
  realized_totals_per_unit_df,
  unrealized_totals_df,
  unrealized_totals_per_unit_df

\* the variables of the valuation converter and of the aggregator
later == <<value_index, realized_totals_df, realized_totals_per_unit_df,
           unrealized_totals_df, unrealized_totals_per_unit_df>>

vars == <<columns, input_df, primary_value_currency, buy_df, sell_df,
          buy_and_sell_match_df, pc, error, iterations, later>>

-----------------------------------------------------------------------------
(* Bounds of the model *)

MaxRows == 3
MaxQty == 2
MaxDate == 2

-----------------------------------------------------------------------------
(* Strings *)

\* str.lower() on the strings of the model
Lower(s) ==
  CASE s = "BTC" -> "btc"
    [] s = "ETH" -> "eth"
    [] s = "USD" -> "usd"
    [] s = "EUR" -> "eur"
    [] s = "Gift" -> "gift"
    [] s = "GIFT" -> "gift"
    [] s = "Total" -> "total"
    [] OTHER -> s

\* str.upper() on the strings of the model
Upper(s) ==
  CASE s = "btc" -> "BTC"
    [] s = "eth" -> "ETH"
    [] s = "usd" -> "USD"
    [] s = "eur" -> "EUR"
    [] s = "xyz" -> "XYZ"
    [] s = "gift" -> "GIFT"
    [] s = "Gift" -> "GIFT"
    [] OTHER -> s

fiat_currencies ==
  {"AED", "ARS", "AUD", "BRL", "CAD", "CHF", "CLP", "CNY", "CZK", "DKK", "EUR",
   "GBP", "HKD", "HUF", "IDR", "ILS", "INR", "JPY", "KRW", "MXN", "MYR", "NOK",
   "NZD", "PHP", "PKR", "PLN", "RON", "RUB", "SEK", "SGD", "THB", "TRY", "TWD",
   "UAH", "USD", "ZAR"}

get_currency_is_fiat(currency) == Upper(currency) \in fiat_currencies

-----------------------------------------------------------------------------
(* Numbers *)

NaN == <<>>
Num(n) == <<n>>
IsNaN(c) == c = <<>>

\* round(n / d, 8) in units of 10^-8: the nearest integers to n / d.  A tie is
\* decided by the binary representation of the float, so both neighbours are
\* possible outcomes.
RoundDiv(n, d) ==
  LET q == n \div d
      r == n % d
  IN  IF 2 * r < d THEN {q}
      ELSE IF 2 * r > d THEN {q + 1}
      ELSE {q, q + 1}

\* The possible results of calculate_trade_match_value
calculate_trade_match_value(match_quantity, trade_quantity, trade_value) ==
  RoundDiv(match_quantity * trade_value, trade_quantity)

Min(a, b) == IF a <= b THEN a ELSE b

RECURSIVE SumOver(_, _)
\* sum of f[i] over the finite set S of the domain of f
SumOver(f, S) ==
  IF S = {} THEN 0
  ELSE LET i == CHOOSE x \in S : TRUE
       IN  f[i] + SumOver(f, S \ {i})

-----------------------------------------------------------------------------
(* Ledger normaliser *)

\* get_primary_value_currency: the last buy_value_ column in a fiat currency
\* (upper-cased), "" when there is none
RECURSIVE LastFiat(_, _)
LastFiat(cols, found) ==
  IF cols = <<>> THEN found
  ELSE LastFiat(Tail(cols),
                IF get_currency_is_fiat(Upper(Head(cols))) THEN Upper(Head(cols)) ELSE found)

get_primary_value_currency(cols) == LastFiat(cols, "")

\* a variant that compares the currency codes as written
set_trade_value_case_sensitive(quantity, currency, trade_value, trade_value_currency) ==
  IF currency = trade_value_currency THEN quantity ELSE trade_value

set_trade_value(quantity, currency, trade_value, trade_value_currency) ==
  IF Lower(currency) = Lower(trade_value_currency) THEN quantity ELSE trade_value

\* set_primary_trade_value: the result of the buy-side call is overwritten by
\* the sell-side call
set_primary_trade_value(row, primary) ==
  LET buy_value == row.buy_value
      sell_value == row.sell_value
  IN  IF sell_value = 0 THEN buy_value
      ELSE LET result1 == set_trade_value(row.buy, row.buy_currency, row.sell_value, primary)
               result2 == set_trade_value(row.sell, row.sell_currency, row.sell_value, primary)
           IN  result2

\* format_values: the columns it adds to a row
format_row(row, primary) ==
  [row EXCEPT !.trade_value = Num(set_primary_trade_value(row, primary)),
              !.buy_currency_is_fiat = get_currency_is_fiat(row.buy_currency),
              !.sell_currency_is_fiat = get_currency_is_fiat(row.sell_currency)]

\* create_buy_or_sell_df: the labels of the rows selected for a side
BuyLabels(df) == {i \in DOMAIN df : df[i].buy # 0 /\ df[i].buy_currency_is_fiat = FALSE}
SellLabels(df) == {i \in DOMAIN df : df[i].sell # 0 /\ df[i].sell_currency_is_fiat = FALSE}

create_buy_df(df) ==
  [i \in BuyLabels(df) |->
     [quantity |-> df[i].buy, currency |-> df[i].buy_currency,
      trade_value |-> df[i].trade_value[1], comment |-> df[i].comment,
      trade_date |-> df[i].trade_date]]

create_sell_df(df) ==
  [i \in SellLabels(df) |->
     [quantity |-> df[i].sell, currency |-> df[i].sell_currency,
      trade_value |-> df[i].trade_value[1], comment |-> df[i].comment,
      trade_date |-> df[i].trade_date]]

\* df.loc[df[currency column] == currency, quantity column].sum()
QuantitySum(df, currency) ==
  SumOver([i \in DOMAIN df |-> df[i].quantity],
          {i \in DOMAIN df : df[i].currency = currency})

\* a variant that compares the units sold of a currency with all units acquired
OversoldCurrencies_all_buys(bdf, sdf) ==
  {c \in {sdf[i].currency : i \in DOMAIN sdf} :
     QuantitySum(sdf, c) > SumOver([i \in DOMAIN bdf |-> bdf[i].quantity], DOMAIN bdf)}

\* check_for_valid_buy_and_sell_quantities: the currencies it rejects
OversoldCurrencies(bdf, sdf) ==
  {c \in {sdf[i].currency : i \in DOMAIN sdf} :
     QuantitySum(sdf, c) > QuantitySum(bdf, c)}

-----------------------------------------------------------------------------
(* Matching engine *)

\* a variant that selects the latest date
idxmin_latest(df, S) ==
  CHOOSE i \in S :
    /\ \A j \in S : df[i].trade_date >= df[j].trade_date
    /\ \A j \in S : df[j].trade_date = df[i].trade_date => i <= j

\* Series.idxmin of trade_date over the labels S: the first label, in row
\* order, that holds the minimum date
idxmin(df, S) ==
  CHOOSE i \in S :
    /\ \A j \in S : df[i].trade_date <= df[j].trade_date
    /\ \A j \in S : df[j].trade_date = df[i].trade_date => i <= j

SameCurrency(df, currency) == {i \in DOMAIN df : df[i].currency = currency}

\* a variant that compares the comment as written
IsRecorded_case_sensitive(comment) == comment # "gift"

\* sell_row['comment'].lower() != 'gift'
IsRecorded(comment) == Lower(comment) # "gift"

\* a variant that drops the entry after any match
subtract_match_drops(df, index, match_quantity, match_value) ==
  [i \in DOMAIN df \ {index} |-> df[i]]

\* a variant that never drops an entry
subtract_match_keeps(df, index, match_quantity, match_value) ==
  [df EXCEPT ![index] = [@ EXCEPT !.quantity = @ - match_quantity,
                                  !.trade_value = @ - match_value]]

\* subtract_match: the entry loses the match; an entry left with quantity 0 is dropped
subtract_match(df, index, match_quantity, match_value) ==
  LET quantity == df[index].quantity - match_quantity
      value == df[index].trade_value - match_value
  IN  IF quantity = 0
      THEN [i \in DOMAIN df \ {index} |-> df[i]]
      ELSE [df EXCEPT ![index] = [@ EXCEPT !.quantity = quantity, !.trade_value = value]]

\* the row appended to buy_and_sell_match_df by a recorded match
\* (buy_value and sell_value map the lower-case code of a value currency to the
\* cell of its column; trade_value is the column trade_value_<primary> that the
\* concatenation of line 172 adds when it is not renamed)
MatchRow(sell_row, buy_row, match_quantity, buy_match_value, sell_match_value, primary) ==
  [currency |-> sell_row.currency, quantity |-> match_quantity,
   buy_date |-> Num(buy_row.trade_date), sell_date |-> Num(sell_row.trade_date),
   buy_value |-> (primary :> Num(buy_match_value)),
   sell_value |-> (primary :> Num(sell_match_value)),
   trade_value |-> NaN,
   buy_comment |-> buy_row.comment, sell_comment |-> sell_row.comment]

\* a row of buy_df after the rename of line 172: the value column is renamed
\* to buy_value_usd only when it is called trade_value_usd
ResidualRow(buy_row, primary) ==
  [currency |-> buy_row.currency, quantity |-> buy_row.quantity,
   buy_date |-> Num(buy_row.trade_date), sell_date |-> NaN,
   buy_value |-> (primary :> IF primary = "usd" THEN Num(buy_row.trade_value) ELSE NaN),
   sell_value |-> (primary :> NaN),
   trade_value |-> IF primary = "usd" THEN NaN ELSE Num(buy_row.trade_value),
   buy_comment |-> buy_row.comment, sell_comment |-> ""]

RECURSIVE ResidualRows(_, _, _)
\* the rows of buy_df, in label order
ResidualRows(df, S, primary) ==
  IF S = {} THEN <<>>
  ELSE LET i == CHOOSE x \in S : \A y \in S : x <= y
       IN  <<ResidualRow(df[i], primary)>> \o ResidualRows(df, S \ {i}, primary)

-----------------------------------------------------------------------------
(* Inputs *)

NoError == [kind |-> "none", currency |-> "", sell_date |-> 0, buy_date |-> 0]

Row(b, bc, bv, s, sc, sv, c, d) ==
  [buy |-> b, buy_currency |-> bc, buy_value |-> bv,
   sell |-> s, sell_currency |-> sc, sell_value |-> sv,
   comment |-> c, trade_date |-> d,
   trade_value |-> NaN, buy_currency_is_fiat |-> FALSE, sell_currency_is_fiat |-> FALSE]

\* acquisitions of BTC: a deposit, valued 3 units
BuyRows == {Row(q, "BTC", 3, 0, "", 0, "", d) : q \in 1..MaxQty, d \in 1..MaxDate}

\* disposals of BTC for USD: the proceeds are 5 USD, valued 3 units
SellRows == {Row(5, "USD", 5, q, "BTC", 3, "sale", d) : q \in 1..MaxQty, d \in 1..MaxDate}

\* a gift of BTC, and an acquisition and a disposal of a second asset
OtherRows ==
  { Row(0, "", 0, 1, "BTC", 3, "Gift", MaxDate),
    Row(1, "btc", 3, 0, "", 0, "", 1),
    Row(5, "USD", 0, 1, "btc", 0, "sale", MaxDate) }

RowSet == BuyRows \cup SellRows \cup OtherRows

RECURSIVE SeqsUpTo(_, _)
SeqsUpTo(S, n) ==
  IF n = 0 THEN {<<>>}
  ELSE LET shorter == SeqsUpTo(S, n - 1)
       IN  shorter \cup {Append(s, x) : s \in {t \in shorter : Len(t) = n - 1}, x \in S}

\* the example of the FIFO property: buys of 10 and 5 at T1 < T2, a sale of 12 at T3
FifoExample ==
  << Row(10, "BTC", 20, 0, "", 0, "", 1),
     Row(5, "BTC", 10, 0, "", 0, "", 2),
     Row(36, "USD", 36, 12, "BTC", 36, "sale", 3) >>

\* gifts spelled in other letter cases, next to a sale, both matched against
\* one larger buy
GiftExamples ==
  { << Row(MaxQty + 1, "BTC", 5, 0, "", 0, "", 1),
       Row(0, "", 0, 1, "BTC", 3, g, 2),
       Row(5, "USD", 5, 1, "BTC", 3, "sale", 2) >> :
      g \in {"gift", "GIFT", "Gift"} }

Inputs == SeqsUpTo(RowSet, MaxRows) \cup {FifoExample} \cup GiftExamples

ColumnSets == {<<"usd">>, <<"eur">>, <<"btc">>}

InitWith(inputs) ==
  /\ columns \in ColumnSets
  /\ input_df \in inputs
  /\ primary_value_currency = ""
  /\ buy_df = <<>>
  /\ sell_df = <<>>
  /\ buy_and_sell_match_df = <<>>
  /\ pc = "start"
  /\ error = NoError
  /\ iterations = 0
  /\ value_index = 2
  /\ realized_totals_df = {}
  /\ realized_totals_per_unit_df = {}
  /\ unrealized_totals_df = {}
  /\ unrealized_totals_per_unit_df = {}

Init == InitWith(Inputs)

-----------------------------------------------------------------------------
(* main() *)

\* main, lines 343-346: the base currency, or the fatal error of
\* get_primary_value_currency
GetPrimary ==
  /\ pc = "start"
  /\ LET p == get_primary_value_currency(columns)
     IN  IF p = ""
         THEN /\ pc' = "failed"
              /\ error' = [NoError EXCEPT !.kind = "no_fiat_value_column"]
              /\ UNCHANGED primary_value_currency
         ELSE /\ pc' = "format"
              /\ primary_value_currency' = p
              /\ UNCHANGED error
  /\ UNCHANGED <<columns, iterations, input_df, buy_df, sell_df, buy_and_sell_match_df, later>>

\* main, line 348: format_values
FormatValues ==
  /\ pc = "format"
  /\ input_df' = [i \in DOMAIN input_df |-> format_row(input_df[i], Lower(primary_value_currency))]
  /\ pc' = "project"
  /\ UNCHANGED <<columns, iterations, primary_value_currency, buy_df, sell_df, buy_and_sell_match_df, error, later>>

\* main, lines 350-351: create_buy_or_sell_df for both sides
CreateBuyAndSell ==
  /\ pc = "project"
  /\ buy_df' = create_buy_df(input_df)
  /\ sell_df' = create_sell_df(input_df)
  /\ pc' = "check"
  /\ UNCHANGED <<columns, iterations, input_df, primary_value_currency, buy_and_sell_match_df, error, later>>

\* main, line 353: check_for_valid_buy_and_sell_quantities; the loop over
\* sell_df['sell_currency'].unique() stops at the first rejected currency
CheckQuantities ==
  /\ pc = "check"
  /\ LET bad == OversoldCurrencies(buy_df, sell_df)
     IN  IF bad # {}
         THEN LET first == CHOOSE i \in DOMAIN sell_df :
                             /\ sell_df[i].currency \in bad
                             /\ \A j \in DOMAIN sell_df : sell_df[j].currency \in bad => i <= j
              IN  /\ pc' = "failed"
                  /\ error' = [NoError EXCEPT !.kind = "units_sold_exceed_units_acquired",
                                              !.currency = sell_df[first].currency]
         ELSE /\ pc' = "match"
              /\ UNCHANGED error
  /\ UNCHANGED <<columns, iterations, input_df, primary_value_currency, buy_df, sell_df, buy_and_sell_match_df, later>>

\* lines 148-152: the rows the loop iteration selects
SelectedSell == idxmin(sell_df, DOMAIN sell_df)
BuyCandidates == SameCurrency(buy_df, sell_df[SelectedSell].currency)
SelectedBuy == idxmin(buy_df, BuyCandidates)

\* a variant that takes the larger quantity
MatchQuantity_max(buy_quantity, sell_quantity) ==
  IF buy_quantity >= sell_quantity THEN buy_quantity ELSE sell_quantity

\* line 161
MatchQuantity(buy_quantity, sell_quantity) == Min(buy_quantity, sell_quantity)

\* a variant that also rejects a buy dated equal to the sell
Ineligible_or_equal(sell_date, buy_date) == sell_date <= buy_date

\* line 156: the test that rejects the selected buy
Ineligible(sell_date, buy_date) == sell_date < buy_date

\* lines 147-157, an iteration that ends the run: idxmin of an empty selection
\* raises ValueError, a buy later than the sell is the fatal error of line 157
MatchFail ==
  /\ pc = "match"
  /\ DOMAIN sell_df # {}
  /\ \/ BuyCandidates = {}
     \/ Ineligible(sell_df[SelectedSell].trade_date, buy_df[SelectedBuy].trade_date)
  /\ IF BuyCandidates = {}
     THEN /\ pc' = "crashed"
          /\ error' = [NoError EXCEPT !.kind = "ValueError"]
     ELSE /\ pc' = "failed"
          /\ error' = [kind |-> "sell_cannot_be_matched",
                       currency |-> sell_df[SelectedSell].currency,
                       sell_date |-> sell_df[SelectedSell].trade_date,
                       buy_date |-> buy_df[SelectedBuy].trade_date]
  /\ iterations' = iterations + 1
  /\ UNCHANGED <<columns, input_df, primary_value_currency, buy_df, sell_df, buy_and_sell_match_df, later>>

\* lines 147-170, an iteration that matches
MatchStep ==
  /\ pc = "match"
  /\ DOMAIN sell_df # {}
  /\ BuyCandidates # {}
  /\ ~Ineligible(sell_df[SelectedSell].trade_date, buy_df[SelectedBuy].trade_date)
  /\ LET sell_row == sell_df[SelectedSell]
         buy_row == buy_df[SelectedBuy]
         match_quantity == MatchQuantity(buy_row.quantity, sell_row.quantity)
     IN  \E buy_match_value \in calculate_trade_match_value(match_quantity, buy_row.quantity, buy_row.trade_value),
            sell_match_value \in calculate_trade_match_value(match_quantity, sell_row.quantity, sell_row.trade_value) :
           /\ buy_and_sell_match_df' =
                IF IsRecorded(sell_row.comment)
                THEN Append(buy_and_sell_match_df,
                            MatchRow(sell_row, buy_row, match_quantity, buy_match_value,
                                     sell_match_value, Lower(primary_value_currency)))
                ELSE buy_and_sell_match_df
           /\ buy_df' = subtract_match(buy_df, SelectedBuy, match_quantity, buy_match_value)
           /\ sell_df' = subtract_match(sell_df, SelectedSell, match_quantity, sell_match_value)
  /\ pc' = "match"
  /\ iterations' = iterations + 1
  /\ UNCHANGED <<columns, input_df, primary_value_currency, error, later>>

\* line 172: the loop has ended; the remaining rows of buy_df are appended
ConcatResidual ==
  /\ pc = "match"
  /\ DOMAIN sell_df = {}
  /\ buy_and_sell_match_df' =
       buy_and_sell_match_df \o ResidualRows(buy_df, DOMAIN buy_df, Lower(primary_value_currency))
  /\ pc' = "convert"
  /\ UNCHANGED <<columns, iterations, input_df, primary_value_currency, buy_df, sell_df, error, later>>

Next ==
  \/ GetPrimary
  \/ FormatValues
  \/ CreateBuyAndSell
  \/ CheckQuantities
  \/ MatchFail
  \/ MatchStep
  \/ ConcatResidual

Spec == Init /\ [][Next]_vars

\* the rows the matching loop is run on to its end: buys and sales of every
\* quantity, a buy that comes after the first sale, a gift, and a buy and a
\* sale of a second asset
LoopRows ==
  {Row(q, "BTC", 3, 0, "", 0, "", 1) : q \in 1..MaxQty}
    \cup {Row(5, "USD", 5, q, "BTC", 3, "sale", MaxDate) : q \in 1..MaxQty}
    \cup { Row(1, "BTC", 3, 0, "", 0, "", MaxDate),
           Row(5, "USD", 5, 1, "BTC", 3, "sale", 1),
           Row(0, "", 0, 1, "BTC", 3, "Gift", MaxDate),
           Row(1, "btc", 3, 0, "", 0, "", 1),
           Row(5, "USD", 0, 1, "btc", 0, "sale", MaxDate) }

InitMatching == InitWith(SeqsUpTo(LoopRows, MaxRows))

\* main() up to the end of the matching loop, run as a sequential program:
\* a statement that can be executed is executed
SpecMatching == InitMatching /\ [][Next]_vars /\ WF_vars(Next)

-----------------------------------------------------------------------------
(* Valuation converter *)

\* main, line 344
value_currencies(primary) == <<primary, "BTC", "ETH">>

\* a product and a difference of cells: NaN if an operand is NaN
Mul(cell, factor) == IF IsNaN(cell) THEN NaN ELSE Num(cell[1] * factor)
Sub(a, b) == IF IsNaN(a) \/ IsNaN(b) THEN NaN ELSE Num(a[1] - b[1])

\* the prices the historical-price service may return
Rates == {2, 3}

\* the dates of the match table: the timestamps a price is asked for
TableDates(df) ==
  {df[k].buy_date[1] : k \in {x \in DOMAIN df : ~IsNaN(df[x].buy_date)}}
    \cup {df[k].sell_date[1] : k \in {x \in DOMAIN df : ~IsNaN(df[x].sell_date)}}

\* convert_historical_trade_value, the price being hist[trade_date]
convert_historical_trade_value(from_value, trade_date, hist) == Mul(from_value, hist[trade_date])

\* lines 181 and 183 for one row and one side: the cell of the column
\* <side>_value_<value_currency>; a row without the side's date gets NaN
ConvertedCell(row, date, primary_value, value_currency, hist) ==
  IF IsNaN(date) THEN NaN
  ELSE set_trade_value(Num(row.quantity), row.currency,
                       convert_historical_trade_value(primary_value, date[1], hist),
                       value_currency)

\* lines 176-183 for one row: both sides
ConvertRow(row, primary, value_currency, hist) ==
  [row EXCEPT
     !.buy_value = (value_currency :> ConvertedCell(row, row.buy_date, row.buy_value[primary], value_currency, hist)) @@ @,
     !.sell_value = (value_currency :> ConvertedCell(row, row.sell_date, row.sell_value[primary], value_currency, hist)) @@ @]

\* add_gain_loss_to_df and the column selection of line 187 for one row
GainLossRow(row) ==
  [currency |-> row.currency, quantity |-> row.quantity,
   buy_date |-> row.buy_date, sell_date |-> row.sell_date,
   buy_value |-> row.buy_value, sell_value |-> row.sell_value,
   gain_loss |-> [c \in DOMAIN row.buy_value |-> Sub(row.sell_value[c], row.buy_value[c])],
   buy_comment |-> row.buy_comment, sell_comment |-> row.sell_comment]

\* sort_values(by=['sell_date', 'buy_date'], ascending=False): a later date
\* first, NaT last
DateBefore(a, b) == ~IsNaN(a) /\ (IsNaN(b) \/ a[1] > b[1])
RowBefore(a, b) ==
  \/ DateBefore(a.sell_date, b.sell_date)
  \/ a.sell_date = b.sell_date /\ DateBefore(a.buy_date, b.buy_date)

RECURSIVE InsertRow(_, _)
InsertRow(row, sorted) ==
  IF sorted = <<>> THEN <<row>>
  ELSE IF RowBefore(row, Head(sorted)) THEN <<row>> \o sorted
  ELSE <<Head(sorted)>> \o InsertRow(row, Tail(sorted))

RECURSIVE SortRows(_, _)
\* rows df[1..n] sorted, rows that compare equal kept in their order
SortRows(df, n) == IF n = 0 THEN <<>> ELSE InsertRow(df[n], SortRows(df, n - 1))

\* lines 174-183, one iteration of the loop over value_currencies[1:]: a price
\* is looked up for every date of the table; a failed lookup ends the run
ConvertValues ==
  /\ pc = "convert"
  /\ LET primary == Lower(primary_value_currency)
         value_currency == Lower(value_currencies(primary_value_currency)[value_index])
     IN  \E ok \in BOOLEAN :
           IF ok \/ TableDates(buy_and_sell_match_df) = {}
           THEN /\ \E hist \in [TableDates(buy_and_sell_match_df) -> Rates] :
                     buy_and_sell_match_df' =
                       [k \in DOMAIN buy_and_sell_match_df |->
                          ConvertRow(buy_and_sell_match_df[k], primary, value_currency, hist)]
                /\ value_index' = value_index + 1
                /\ pc' = IF value_index = Len(value_currencies(primary_value_currency))
                         THEN "gain_loss" ELSE "convert"
                /\ UNCHANGED error
           ELSE /\ pc' = "failed"
                /\ error' = [NoError EXCEPT !.kind = "price_lookup"]
                /\ UNCHANGED <<buy_and_sell_match_df, value_index>>
  /\ UNCHANGED <<columns, iterations, input_df, primary_value_currency, buy_df, sell_df,
                 realized_totals_df, realized_totals_per_unit_df,
                 unrealized_totals_df, unrealized_totals_per_unit_df>>

\* lines 185-191: gain and loss, the column selection and the sort
AddGainLoss ==
  /\ pc = "gain_loss"
  /\ buy_and_sell_match_df' =
       LET df == [k \in DOMAIN buy_and_sell_match_df |-> GainLossRow(buy_and_sell_match_df[k])]
       IN  SortRows(df, Len(df))
  /\ pc' = "realized_totals"
  /\ UNCHANGED <<columns, iterations, input_df, primary_value_currency, buy_df, sell_df, error, later>>

-----------------------------------------------------------------------------
(* Aggregator.  A totals table is modelled as the set of its rows. *)

\* dt.year: the dates of the model are ordinals, date 1 lies in 2017 and the
\* later dates in 2018
Year(date) == IF date <= 1 THEN "2017" ELSE "2018"

\* np.sum of a column (cells, one cell per row) over the rows S: NaN cells
\* are skipped
SumCells(cells, S) ==
  Num(SumOver([k \in DOMAIN cells |-> IF IsNaN(cells[k]) THEN 0 ELSE cells[k][1]], S))

\* one row of a totals table: the sums over the rows S of df
TotalsRow(df, S, sell_year, currency, quantity) ==
  LET codes == DOMAIN df[CHOOSE k \in S : TRUE].buy_value
  IN  [sell_year |-> sell_year, currency |-> currency, quantity |-> quantity,
       buy_value |-> [c \in codes |-> SumCells([k \in DOMAIN df |-> df[k].buy_value[c]], S)],
       sell_value |-> [c \in codes |-> SumCells([k \in DOMAIN df |-> df[k].sell_value[c]], S)],
       gain_loss |-> [c \in codes |-> SumCells([k \in DOMAIN df |-> df[k].gain_loss[c]], S)]]

\* create_totals_df: pivot_table over the rows S of df, grouped by their keys
\* (sell_year, currency), with the margins row when asked for; quantities
\* holds the cell of the quantity column of every row; line 249 leaves the
\* quantity of a row whose first column is margins_name undefined
create_totals_df(df, S, keys, quantities, first_column, margins, margins_name) ==
  LET groups == {keys[k] : k \in S}
      members(g) == {k \in S : keys[k] = g}
      rows == {TotalsRow(df, members(g), g[1], g[2], SumCells(quantities, members(g))) : g \in groups}
      all == IF margins /\ S # {}
             THEN rows \cup {TotalsRow(df, S, IF first_column = "sell_year" THEN margins_name ELSE "",
                                       IF first_column = "currency" THEN margins_name ELSE "",
                                       SumCells(quantities, S))}
             ELSE rows
  IN  {IF row[first_column] = margins_name THEN [row EXCEPT !.quantity = NaN] ELSE row : row \in all}

\* a quotient of cells: <<numerator, denominator>>, NaN if an operand is NaN
Div(a, b) == IF IsNaN(a) \/ IsNaN(b) THEN NaN ELSE <<a[1], b[1]>>

\* a variant that keeps the margins row
create_totals_per_unit_df_keeps_total(totals_df, first_column) ==
  {[row EXCEPT
      !.buy_value = [c \in DOMAIN row.buy_value |-> Div(row.buy_value[c], row.quantity)],
      !.sell_value = [c \in DOMAIN row.sell_value |-> Div(row.sell_value[c], row.quantity)],
      !.gain_loss = [c \in DOMAIN row.gain_loss |-> Div(row.gain_loss[c], row.quantity)]]
   : row \in totals_df}

\* create_totals_per_unit_df: every value column divided by the row's
\* quantity, then the rows whose first column is 'Total' removed
create_totals_per_unit_df(totals_df, first_column) ==
  LET divided == {[row EXCEPT
                     !.buy_value = [c \in DOMAIN row.buy_value |-> Div(row.buy_value[c], row.quantity)],
                     !.sell_value = [c \in DOMAIN row.sell_value |-> Div(row.sell_value[c], row.quantity)],
                     !.gain_loss = [c \in DOMAIN row.gain_loss |-> Div(row.gain_loss[c], row.quantity)]]
                  : row \in totals_df}
  IN  {row \in divided : row[first_column] # "Total"}

\* the pivot index of the realised totals, ['sell_year', 'currency'], and of
\* the unrealised totals, ['currency']
RealizedKey(row) == <<Year(row.sell_date[1]), row.currency>>
UnrealizedKey(row) == <<"", row.currency>>

\* main, line 361: create_realized_totals_df
RealizedTotals ==
  /\ pc = "realized_totals"
  /\ realized_totals_df' =
       LET df == buy_and_sell_match_df
           realized == {k \in DOMAIN df : ~IsNaN(df[k].sell_date)}
       IN  create_totals_df(df, realized,
                            [k \in realized |-> RealizedKey(df[k])],
                            [k \in DOMAIN df |-> Num(df[k].quantity)],
                            "sell_year", TRUE, "Total")
  /\ pc' = "realized_per_unit"
  /\ UNCHANGED <<columns, iterations, input_df, primary_value_currency, buy_df, sell_df, buy_and_sell_match_df,
                 error, value_index, realized_totals_per_unit_df,
                 unrealized_totals_df, unrealized_totals_per_unit_df>>

\* main, line 362
RealizedPerUnit ==
  /\ pc = "realized_per_unit"
  /\ realized_totals_per_unit_df' = create_totals_per_unit_df(realized_totals_df, "sell_year")
  /\ pc' = "unrealized_totals"
  /\ UNCHANGED <<columns, iterations, input_df, primary_value_currency, buy_df, sell_df, buy_and_sell_match_df,
                 error, value_index, realized_totals_df,
                 unrealized_totals_df, unrealized_totals_per_unit_df>>

\* the prices the current-price service may return
Prices == {1, 2}

\* lines 269-273 for one row of the first totals table: the current value in
\* every value currency (0 when the service has no identifier for the asset)
\* and the gain or loss
CurrentValueRow(row, ids, price) ==
  LET sell_value == [c \in DOMAIN row.buy_value |->
                       Num(row.quantity[1] * (IF Lower(row.currency) \in ids THEN price[c] ELSE 0))]
  IN  [row EXCEPT !.sell_value = sell_value,
                  !.gain_loss = [c \in DOMAIN row.buy_value |-> Sub(sell_value[c], row.buy_value[c])]]

\* the rows of a totals table as a sequence, to total them again
RECURSIVE AsSeq(_)
AsSeq(S) == IF S = {} THEN <<>> ELSE LET x == CHOOSE y \in S : TRUE IN <<x>> \o AsSeq(S \ {x})


\* main, line 364: create_unrealized_totals_df; the price service knows the
\* identifiers ids and answers with the prices price, or a call to it fails
UnrealizedTotals ==
  /\ pc = "unrealized_totals"
  /\ LET held == {k \in DOMAIN buy_and_sell_match_df : IsNaN(buy_and_sell_match_df[k].sell_date)}
         first == create_totals_df(buy_and_sell_match_df, held,
                                   [k \in held |-> UnrealizedKey(buy_and_sell_match_df[k])],
                                   [k \in DOMAIN buy_and_sell_match_df |-> Num(buy_and_sell_match_df[k].quantity)],
                                   "currency", FALSE, "Total")
         symbols == {Lower(row.currency) : row \in first}
         codes == {Lower(value_currencies(primary_value_currency)[i]) : i \in 1..3}
     IN  \E ok \in BOOLEAN :
           IF ok
           THEN /\ \E ids \in SUBSET symbols : \E price \in [codes -> Prices] :
                     LET df == AsSeq({CurrentValueRow(row, ids, price) : row \in first})
                     IN  unrealized_totals_df' =
                           create_totals_df(df, DOMAIN df,
                                            [k \in DOMAIN df |-> UnrealizedKey(df[k])],
                                            [k \in DOMAIN df |-> df[k].quantity],
                                            "currency", TRUE, "Total")
                /\ pc' = "unrealized_per_unit"
                /\ UNCHANGED error
           ELSE /\ pc' = "failed"
                /\ error' = [NoError EXCEPT !.kind = "price_lookup"]
                /\ UNCHANGED unrealized_totals_df
  /\ UNCHANGED <<columns, iterations, input_df, primary_value_currency, buy_df, sell_df, buy_and_sell_match_df,
                 value_index, realized_totals_df, realized_totals_per_unit_df,
                 unrealized_totals_per_unit_df>>

\* main, line 365; lines 367-381 round copies of the tables and write the workbook
UnrealizedPerUnit ==
  /\ pc = "unrealized_per_unit"
  /\ unrealized_totals_per_unit_df' = create_totals_per_unit_df(unrealized_totals_df, "currency")
  /\ pc' = "output"
  /\ UNCHANGED <<columns, iterations, input_df, primary_value_currency, buy_df, sell_df, buy_and_sell_match_df,
                 error, value_index, realized_totals_df, realized_totals_per_unit_df,
                 unrealized_totals_df>>

\* the rows the whole pipeline is run on
PipelineRows ==
  { Row(MaxQty, "BTC", 3, 0, "", 0, "", 1),
    Row(1, "BTC", 3, 0, "", 0, "", MaxDate),
    Row(1, "btc", 3, 0, "", 0, "", 1),
    Row(5, "USD", 5, 1, "BTC", 3, "sale", 1),
    Row(5, "USD", 5, 1, "BTC", 3, "sale", MaxDate),
    Row(5, "USD", 5, 1, "btc", 4, "sale", MaxDate),
    Row(0, "", 0, 1, "BTC", 3, "Gift", MaxDate) }

InitPipeline == InitWith(SeqsUpTo(PipelineRows, MaxRows))

NextPipeline ==
  \/ Next
  \/ ConvertValues
  \/ AddGainLoss
  \/ RealizedTotals
  \/ RealizedPerUnit
  \/ UnrealizedTotals
  \/ UnrealizedPerUnit

\* main() as a whole
SpecPipeline == InitPipeline /\ [][NextPipeline]_vars

-----------------------------------------------------------------------------
(* What the properties speak about *)

\* the BuyEvents and SellEvents exist: the base currency was found and both
\* projections were made
Projected == pc \notin {"start", "format", "project"} /\ error.kind # "no_fiat_value_column"

\* the rows of the input that are BuyEvents / SellEvents, read off the input itself
InputBuys == {i \in DOMAIN input_df : input_df[i].buy # 0 /\ Upper(input_df[i].buy_currency) \notin fiat_currencies}
InputSells == {i \in DOMAIN input_df : input_df[i].sell # 0 /\ Upper(input_df[i].sell_currency) \notin fiat_currencies}

InputBuyQuantity(c) ==
  SumOver([i \in DOMAIN input_df |-> input_df[i].buy], {i \in InputBuys : input_df[i].buy_currency = c})
InputSellQuantity(c) ==
  SumOver([i \in DOMAIN input_df |-> input_df[i].sell], {i \in InputSells : input_df[i].sell_currency = c})
InputGiftQuantity(c) ==
  SumOver([i \in DOMAIN input_df |-> input_df[i].sell],
          {i \in InputSells : input_df[i].sell_currency = c /\ Lower(input_df[i].comment) = "gift"})

Currencies == {input_df[i].buy_currency : i \in InputBuys} \cup {input_df[i].sell_currency : i \in InputSells}

\* the rows of the match table: realised lots and residual holdings
Lots == {k \in DOMAIN buy_and_sell_match_df : ~IsNaN(buy_and_sell_match_df[k].sell_date)}
Holdings == {k \in DOMAIN buy_and_sell_match_df : IsNaN(buy_and_sell_match_df[k].sell_date)}

TableQuantity(S, c) ==
  SumOver([k \in DOMAIN buy_and_sell_match_df |-> buy_and_sell_match_df[k].quantity],
          {k \in S : buy_and_sell_match_df[k].currency = c})

\* quantity of the gift SellEvents of a currency still waiting in sell_df
PendingGiftQuantity(c) ==
  SumOver([i \in DOMAIN sell_df |-> sell_df[i].quantity],
          {i \in DOMAIN sell_df : sell_df[i].currency = c /\ Lower(sell_df[i].comment) = "gift"})

\* quantity left of an entry, 0 once it is dropped
Remaining(df, i) == IF i \in DOMAIN df THEN df[i].quantity ELSE 0

-----------------------------------------------------------------------------
(* C1 *)

\* C1 as stated: when matching has completed, for each currency the emitted
\* lots plus the residual holdings add up to the original BuyEvent quantities.
ConservationAsStated ==
  pc = "convert" =>
    \A c \in Currencies :
      TableQuantity(Lots, c) + TableQuantity(Holdings, c) = InputBuyQuantity(c)

\* C1 amended: the quantities matched to gift sells, which emit no lot, are
\* counted too.  During the loop: emitted lots + gift quantity consumed so far
\* + quantity left in buy_df = original BuyEvent quantity, per currency; when
\* matching has completed: lots + all gift quantity + residual holdings.
Conservation ==
  /\ pc = "match" =>
        \A c \in Currencies :
          TableQuantity(Lots, c) + (InputGiftQuantity(c) - PendingGiftQuantity(c))
            + QuantitySum(buy_df, c) = InputBuyQuantity(c)
  /\ pc = "convert" =>
        \A c \in Currencies :
          TableQuantity(Lots, c) + InputGiftQuantity(c) + TableQuantity(Holdings, c)
            = InputBuyQuantity(c)

\* matching completed with a lot, a gift and a residual holding of one currency
ConservationWitness ==
  /\ pc = "convert"
  /\ \E c \in Currencies :
       /\ TableQuantity(Lots, c) > 0
       /\ InputGiftQuantity(c) > 0
       /\ TableQuantity(Holdings, c) > 0

-----------------------------------------------------------------------------
(* C2 *)

Oversold == \E c \in Currencies : InputSellQuantity(c) > InputBuyQuantity(c)

Undecremented ==
  /\ buy_and_sell_match_df = <<>>
  /\ DOMAIN buy_df = InputBuys
  /\ DOMAIN sell_df = InputSells
  /\ \A i \in InputBuys : buy_df[i].quantity = input_df[i].buy
  /\ \A i \in InputSells : sell_df[i].quantity = input_df[i].sell

\* C2: when some currency's total SellEvent quantity exceeds its total BuyEvent
\* quantity, the run gets no further than the quantity check: it ends there
\* with the units-sold-exceed-units-acquired error for an oversold currency,
\* with no lot emitted and no working entry decremented.
NoOversell ==
  (Projected /\ Oversold) =>
    /\ pc \in {"check", "failed"}
    /\ Undecremented
    /\ pc = "failed" =>
          /\ error.kind = "units_sold_exceed_units_acquired"
          /\ InputSellQuantity(error.currency) > InputBuyQuantity(error.currency)

\* the run failed on a sold currency that has no BuyEvent at all
NoOversellWitness ==
  /\ pc = "failed"
  /\ error.kind = "units_sold_exceed_units_acquired"
  /\ InputBuyQuantity(error.currency) = 0
  /\ InputBuys # {}

-----------------------------------------------------------------------------
(* C3 *)

\* the buys and the sell an iteration of the loop has consumed from
ConsumedBuys == {i \in DOMAIN buy_df : Remaining(buy_df', i) < buy_df[i].quantity}
ConsumedSells == {i \in DOMAIN sell_df : Remaining(sell_df', i) < sell_df[i].quantity}

FifoStep ==
  (pc = "match" /\ pc' = "match") =>
    /\ \A s \in ConsumedSells :
         \A t \in DOMAIN sell_df : sell_df[s].trade_date <= sell_df[t].trade_date
    /\ \A b \in ConsumedBuys :
         /\ \A s \in ConsumedSells : buy_df[b].currency = sell_df[s].currency
         /\ \A j \in DOMAIN buy_df :
              buy_df[j].currency = buy_df[b].currency
                => buy_df[b].trade_date <= buy_df[j].trade_date
    /\ Cardinality(ConsumedSells) = 1
    /\ Cardinality(ConsumedBuys) = 1

\* the rows of the match table, reduced to currency, quantity and dates
Shape(row) == <<row.currency, row.quantity, row.buy_date, row.sell_date>>

FifoExampleResult ==
  (pc = "convert" /\ Len(input_df) = 3
     /\ [i \in 1..3 |-> <<input_df[i].buy, input_df[i].sell, input_df[i].trade_date>>]
          = <<(<<10, 0, 1>>), (<<5, 0, 2>>), (<<36, 12, 3>>)>>)
    => [k \in DOMAIN buy_and_sell_match_df |-> Shape(buy_and_sell_match_df[k])]
         = << (<<"BTC", 10, Num(1), Num(3)>>),
              (<<"BTC", 2, Num(2), Num(3)>>),
              (<<"BTC", 3, Num(2), NaN>>) >>

\* C3: every iteration of the loop consumes from the sell with the minimum date
\* among all remaining sells and from the buy with the minimum date among the
\* remaining buys of that sell's currency, so no later buy is consumed while
\* an earlier buy of the currency remains; and buys of 10 at T1 and 5 at T2
\* with a sale of 12 at T3 give the lots 10 (T1->T3) and 2 (T2->T3) and a
\* residual holding of 3 of the T2 buy.
FifoOrdering == [][FifoStep]_vars /\ []FifoExampleResult

\* the example has been matched
FifoOrderingWitness ==
  /\ pc = "convert"
  /\ Len(buy_and_sell_match_df) = 3
  /\ buy_and_sell_match_df[1].quantity = 10
  /\ buy_and_sell_match_df[2].quantity = 2
  /\ buy_and_sell_match_df[3].quantity = 3
  /\ IsNaN(buy_and_sell_match_df[3].sell_date)

-----------------------------------------------------------------------------
(* C4 *)

GiftStep ==
  (pc = "match" /\ pc' = "match") =>
    LET sell_row == sell_df[SelectedSell]
        buy_row == buy_df[SelectedBuy]
        quantity == Min(buy_row.quantity, sell_row.quantity)
    IN  /\ Remaining(buy_df', SelectedBuy) = buy_row.quantity - quantity
        /\ Remaining(sell_df', SelectedSell) = sell_row.quantity - quantity
        /\ \A i \in DOMAIN buy_df \ {SelectedBuy} : i \in DOMAIN buy_df' /\ buy_df'[i] = buy_df[i]
        /\ \A i \in DOMAIN sell_df \ {SelectedSell} : i \in DOMAIN sell_df' /\ sell_df'[i] = sell_df[i]
        /\ SelectedBuy \in DOMAIN buy_df' =>
              buy_row.trade_value - buy_df'[SelectedBuy].trade_value
                \in RoundDiv(quantity * buy_row.trade_value, buy_row.quantity)
        /\ SelectedSell \in DOMAIN sell_df' =>
              sell_row.trade_value - sell_df'[SelectedSell].trade_value
                \in RoundDiv(quantity * sell_row.trade_value, sell_row.quantity)
        /\ IF Lower(sell_row.comment) = "gift"
           THEN buy_and_sell_match_df' = buy_and_sell_match_df
           ELSE Len(buy_and_sell_match_df') = Len(buy_and_sell_match_df) + 1

NoGiftLot ==
  \A k \in DOMAIN buy_and_sell_match_df : Lower(buy_and_sell_match_df[k].sell_comment) # "gift"

GiftConsumes ==
  pc = "convert" =>
    \A c \in Currencies : TableQuantity(Holdings, c) = InputBuyQuantity(c) - InputSellQuantity(c)

\* C4: a sell whose comment is "gift" in any letter case takes the same
\* quantity and value from the selected buy and from itself as any other sell
\* (the minimum of the two quantities, the proportional value), leaves the
\* other entries alone and adds no row to the match table, while any other sell
\* adds one row; no row of the table ever has a gift as its sell, and the
\* residual holdings are the bought minus the sold quantities, gifts included.
GiftExclusion == [][GiftStep]_vars /\ [](NoGiftLot /\ GiftConsumes)

\* a gift spelled "GIFT" has been consumed next to a recorded sale
GiftExclusionWitness ==
  /\ pc = "convert"
  /\ \E i \in InputSells : input_df[i].comment = "GIFT"
  /\ \E c \in Currencies :
       /\ InputGiftQuantity(c) > 0
       /\ TableQuantity(Lots, c) > 0
       /\ TableQuantity(Holdings, c) = InputBuyQuantity(c) - InputSellQuantity(c)

-----------------------------------------------------------------------------
(* C5 *)

\* the earliest remaining buy of the currency of the earliest remaining sell,
\* read off the tables
EarliestSells == {s \in DOMAIN sell_df : \A t \in DOMAIN sell_df : sell_df[s].trade_date <= sell_df[t].trade_date}
EarliestBuyDates(c) ==
  {buy_df[b].trade_date : b \in {x \in SameCurrency(buy_df, c) :
                                   \A y \in SameCurrency(buy_df, c) : buy_df[x].trade_date <= buy_df[y].trade_date}}

IneligibleStep ==
  (pc = "match" /\ DOMAIN sell_df # {} /\ pc' # pc) =>
    \E s \in EarliestSells : \E d \in EarliestBuyDates(sell_df[s].currency) :
      /\ sell_df[s].trade_date < d
      /\ pc' = "failed"
      /\ error' = [kind |-> "sell_cannot_be_matched", currency |-> sell_df[s].currency,
                   sell_date |-> sell_df[s].trade_date, buy_date |-> d]
      /\ UNCHANGED <<buy_df, sell_df, buy_and_sell_match_df>>

EligibleStep ==
  (pc = "match" /\ DOMAIN sell_df # {} /\ pc' = pc) =>
    \E s \in EarliestSells : \E d \in EarliestBuyDates(sell_df[s].currency) :
      /\ d <= sell_df[s].trade_date
      /\ Remaining(sell_df', s) < sell_df[s].quantity

\* a sell selected by the loop always finds a buy of its currency: the
\* quantity check has passed
BuyRemains ==
  (pc = "match" /\ DOMAIN sell_df # {}) =>
    \A s \in DOMAIN sell_df : SameCurrency(buy_df, sell_df[s].currency) # {}

-----------------------------------------------------------------------------
(* C6 *)

\* C6: every entry of buy_df and sell_df has a quantity of at least one unit of
\* the 8th decimal place (so never zero or negative: an entry that reaches
\* zero is dropped in the step that empties it) and a value that is not
\* negative.
RoundingStability ==
  /\ \A i \in DOMAIN buy_df : buy_df[i].quantity >= 1 /\ buy_df[i].trade_value >= 0
  /\ \A i \in DOMAIN sell_df : sell_df[i].quantity >= 1 /\ sell_df[i].trade_value >= 0

\* a buy that is still active after two partial matches, the value of one of
\* them rounded
RoundingStabilityWitness ==
  /\ pc = "match"
  /\ DOMAIN sell_df = {}
  /\ \E i \in DOMAIN buy_df : \E k \in Lots :
       /\ input_df[i].buy - buy_df[i].quantity >= 2
       /\ Cardinality(InputSells) >= 2
       /\ buy_and_sell_match_df[k].buy_value[Lower(primary_value_currency)][1] * input_df[i].buy
            # buy_and_sell_match_df[k].quantity * input_df[i].trade_value[1]

-----------------------------------------------------------------------------
(* C8 *)

Formatted == pc \notin {"start", "format"} /\ error.kind # "no_fiat_value_column"

\* C8, the part the code decides otherwise: in a row whose sell-side value is
\* not zero, whose buy currency is the base currency and whose sell currency is
\* not, the value of the buy side (the row's trade value, the only value a
\* BuyEvent of the row would get) is the buy quantity.
PrimaryTradeValueAsStated ==
  Formatted =>
    \A i \in DOMAIN input_df :
      ( /\ input_df[i].sell_value # 0
        /\ Lower(input_df[i].buy_currency) = Lower(primary_value_currency)
        /\ Lower(input_df[i].sell_currency) # Lower(primary_value_currency) )
      => input_df[i].trade_value = Num(input_df[i].buy)

-----------------------------------------------------------------------------
(* C10 *)

\* C10 as stated: when the loop has ended the residual rows of the table are
\* the entries left in buy_df, one row each, with the entry's currency,
\* quantity, date and remaining base-currency value as the base-currency buy
\* value, and with no sell date and no sell value.
ResidualHoldingsAsStated ==
  pc = "convert" =>
    /\ Cardinality(Holdings) = Cardinality(DOMAIN buy_df)
    /\ \A i \in DOMAIN buy_df :
         \E k \in Holdings :
           LET row == buy_and_sell_match_df[k]
           IN  /\ row.currency = buy_df[i].currency
               /\ row.quantity = buy_df[i].quantity
               /\ row.buy_date = Num(buy_df[i].trade_date)
               /\ row.buy_value[Lower(primary_value_currency)] = Num(buy_df[i].trade_value)
               /\ IsNaN(row.sell_date)
               /\ IsNaN(row.sell_value[Lower(primary_value_currency)])

-----------------------------------------------------------------------------
(* C7 *)

\* the columns of the reference currencies other than the base that the
\* converter has filled so far
ConvertedCodes(row) == DOMAIN row.buy_value \ {Lower(primary_value_currency)}

\* C7: in every realised lot and for every reference currency other than the
\* base, if the lot's currency is the reference currency (letter case ignored)
\* its buy value and its sell value in that currency are the lot's quantity;
\* otherwise each is the base-currency value times one of the prices the
\* historical-price service may return.
SelfCurrencyIdentity ==
  \A k \in Lots :
    LET row == buy_and_sell_match_df[k]
        primary == Lower(primary_value_currency)
    IN  \A code \in ConvertedCodes(row) :
          IF Lower(row.currency) = code
          THEN /\ row.buy_value[code] = Num(row.quantity)
               /\ row.sell_value[code] = Num(row.quantity)
          ELSE /\ \E r \in Rates : row.buy_value[code] = Num(row.buy_value[primary][1] * r)
               /\ \E r \in Rates : row.sell_value[code] = Num(row.sell_value[primary][1] * r)

\* a lot of the currency written "btc" has been converted: its BTC values are
\* its quantity, which no price gives, and its ETH values are converted
SelfCurrencyIdentityWitness ==
  /\ pc = "output"
  /\ \E k \in Lots :
       LET row == buy_and_sell_match_df[k]
       IN  /\ row.currency = "btc"
           /\ row.buy_value["btc"] = Num(row.quantity)
           /\ \A r \in Rates : row.buy_value[Lower(primary_value_currency)][1] * r # row.quantity
           /\ row.buy_value["eth"] # Num(row.quantity)

-----------------------------------------------------------------------------
(* C9 *)

\* the groups of the realised lots and of the residual holdings, and their
\* sums, read off the match table
RealizedGroups == {<<Year(buy_and_sell_match_df[k].sell_date[1]), buy_and_sell_match_df[k].currency>> : k \in Lots}
RealizedMembers(g) ==
  {k \in Lots : Year(buy_and_sell_match_df[k].sell_date[1]) = g[1] /\ buy_and_sell_match_df[k].currency = g[2]}
HeldCurrencies == {buy_and_sell_match_df[k].currency : k \in Holdings}
HeldMembers(c) == {k \in Holdings : buy_and_sell_match_df[k].currency = c}

GroupQuantity(S) ==
  SumOver([k \in DOMAIN buy_and_sell_match_df |-> buy_and_sell_match_df[k].quantity], S)
GroupValue(S, side, code) ==
  SumOver([k \in DOMAIN buy_and_sell_match_df |-> buy_and_sell_match_df[k][side][code][1]], S)

Sides == {"buy_value", "sell_value", "gain_loss"}

RealizedPerUnitExclusion ==
  pc \in {"unrealized_totals", "unrealized_per_unit", "output"} =>
    /\ \A row \in realized_totals_per_unit_df : row.sell_year # "Total"
    /\ {<<row.sell_year, row.currency>> : row \in realized_totals_per_unit_df} = RealizedGroups
    /\ Cardinality(realized_totals_per_unit_df) = Cardinality(RealizedGroups)
    /\ {<<row.sell_year, row.currency>> : row \in {t \in realized_totals_df : t.sell_year # "Total"}}
         = RealizedGroups
    /\ \A t \in realized_totals_df : t.sell_year = "Total" => IsNaN(t.quantity)
    /\ \A row \in realized_totals_per_unit_df :
         LET S == RealizedMembers(<<row.sell_year, row.currency>>)
         IN  /\ row.quantity = Num(GroupQuantity(S))
             /\ \A side \in Sides : \A code \in DOMAIN row[side] :
                  row[side][code] = <<GroupValue(S, side, code), GroupQuantity(S)>>

UnrealizedPerUnitExclusion ==
  pc = "output" =>
    /\ \A row \in unrealized_totals_per_unit_df : row.currency # "Total"
    /\ {row.currency : row \in unrealized_totals_per_unit_df} = HeldCurrencies
    /\ Cardinality(unrealized_totals_per_unit_df) = Cardinality(HeldCurrencies)
    /\ {t.currency : t \in unrealized_totals_df} \ {"Total"} = HeldCurrencies
    /\ \A t \in unrealized_totals_df : t.currency = "Total" => IsNaN(t.quantity)
    /\ \A row \in unrealized_totals_per_unit_df :
         \E t \in unrealized_totals_df :
           /\ t.currency = row.currency
           /\ row.quantity = Num(GroupQuantity(HeldMembers(row.currency)))
           /\ \A side \in Sides : \A code \in DOMAIN row[side] :
                row[side][code] = <<t[side][code][1], GroupQuantity(HeldMembers(row.currency))>>

\* C9: the per-unit table of the realised totals has one row for every group
\* (sell year, currency) of realised lots and the per-unit table of the
\* unrealised totals one row for every held currency, neither has a row
\* 'Total', and every value of a row is the sum of the group's values over the
\* sum of the group's own quantities; the 'Total' row of a totals table has an
\* undefined quantity.
PerUnitExclusion == RealizedPerUnitExclusion /\ UnrealizedPerUnitExclusion

\* both per-unit tables have been made, each from a totals table that has
\* a 'Total' row
PerUnitExclusionWitness ==
  /\ pc = "output"
  /\ \E t \in realized_totals_df : t.sell_year = "Total"
  /\ \E t \in unrealized_totals_df : t.currency = "Total"
  /\ realized_totals_per_unit_df # {}
  /\ unrealized_totals_per_unit_df # {}

-----------------------------------------------------------------------------
(* C11 *)

\* the entries of the active sets
ActiveEntries == Cardinality(DOMAIN buy_df) + Cardinality(DOMAIN sell_df)

\* an iteration that does not fail drops the selected buy when its quantity is
\* not larger than the sell's, the selected sell when its quantity is not
\* larger than the buy's, and no other entry: the active sets lose an entry
IterationRemoves ==
  (pc = "match" /\ pc' = "match" /\ iterations' = iterations + 1) =>
    LET buy_quantity == buy_df[SelectedBuy].quantity
        sell_quantity == sell_df[SelectedSell].quantity
    IN  /\ DOMAIN buy_df' = IF buy_quantity <= sell_quantity
                             THEN DOMAIN buy_df \ {SelectedBuy} ELSE DOMAIN buy_df
        /\ DOMAIN sell_df' = IF sell_quantity <= buy_quantity
                              THEN DOMAIN sell_df \ {SelectedSell} ELSE DOMAIN sell_df
        /\ ActiveEntries' < ActiveEntries

\* the iterations made so far are at most the BuyEvents plus the SellEvents
IterationBound == iterations <= Cardinality(InputBuys) + Cardinality(InputSells)

\* the two ways the loop ends
MatchingEnded ==
  \/ pc = "convert" /\ DOMAIN sell_df = {}
  \/ pc = "failed" /\ error.kind = "sell_cannot_be_matched"

\* C11: the matching loop, once entered, ends, with the SellEvent set empty or
\* with the failure for a sell that cannot be matched, and in no other way;
\* every iteration that does not fail removes the buy, the sell or both from
\* the active sets, as the match quantity is the smaller of the two
\* quantities; the number of iterations is at most the number of BuyEvents
\* plus the number of SellEvents.
MatchingTerminates ==
  /\ [][IterationRemoves]_vars
  /\ [](IterationBound /\ pc # "crashed")
  /\ (pc = "match") ~> MatchingEnded

\* the loop has ended with the SellEvent set empty after at least two
\* iterations, one less than there were BuyEvents and SellEvents
MatchingTerminatesWitness ==
  /\ pc = "convert"
  /\ DOMAIN sell_df = {}
  /\ iterations >= 2
  /\ iterations = Cardinality(InputBuys) + Cardinality(InputSells) - 1

====
